---- MODULE Spec2Model ----
(***************************************************************************)
(* Article lifecycle pipeline of the feed aggregator: the article store    *)
(* (MongoDBClient), the category fetch phase, the round-robin analysis     *)
(* scheduler (process_category.py), the feed publisher (update_feed.py)    *)
(* and the reconciler (process_categories_runner.py).                      *)
(*                                                                         *)
(* Scores and thresholds are hundredths: 0.6 is 60.  The feed document is  *)
(* the sequence of the guids of its items, in document order.              *)
(***************************************************************************)
EXTENDS Integers, Sequences, FiniteSets, TLC

\* ------------------------------------------------------------------ bounds

\* Article ids known to the model; SpecRR preloads all of them as a backlog.
MaxArticles == 7
\* Ids 1..MaxFetch are the ones the feed source returns in Spec.
MaxFetch == 2
\* Longest reply of the LLM provider, in characters.
MaxLen == 6

Articles == 1..MaxArticles
FetchIds == 1..MaxFetch
\* The newest article of the source may carry a publish timestamp that
\* format_datetime cannot render.
BadIds == {MaxFetch}

\* ------------------------------------------------------- program constants

STATUS_PENDING == "pending"
STATUS_PROCESSED == "processed"
STATUS_FILTERED == "filtered_out"
STATUS_PUBLISHED == "published"

\* batch_size of process_pending_articles_round_robin.
batch_size == 5
\* min_score update_feed.main passes to get_filtered_items.
publish_min_score == 60
\* default limit of get_filtered_items.
filtered_limit == 100
\* default_quality_threshold of reconcile_processed_articles.
default_quality_threshold == 60

\* The category list of the run, in rotation order.
categories == <<"A", "B">>
Categories == {categories[i] : i \in 1..Len(categories)}

\* CategoryConfig.get_quality_threshold for the configured categories:
\* A keeps the default, B is configured below the publisher's minimum.
get_quality_threshold(c) == IF c = "A" THEN 60 ELSE 50

\* CategoryConfig.get_high_quality_target for the configured categories.
get_high_quality_target(c) == IF c = "A" THEN 2 ELSE 1

\* relevance_score values the LLM collaborator returns.
Scores == {55, 60}

\* ------------------------------------------------------------------- state

VARIABLES
    store,      \* feed_items collection: article id -> document (or NoDoc)
    feedFile,   \* feed.xml on disk: guids of its items, in order
    pc,         \* which handler is running, and where
    ret,        \* what the step that just ended did, returned or raised
    missing,    \* reconcile_processed_articles: ids of missing_articles
    rotation,   \* round robin: keys of category_components
    hq,         \* round robin: components[c]["high_quality_count"]
    rrIdx,      \* round robin: position of the for loop in categories
    batch,      \* _process_category_batch: pending_articles still to handle
    batchCount, \* _process_category_batch: articles_processed
    roundCount, \* round robin: articles_processed_this_round
    grants,     \* round robin: batches each category was asked for in this run
    run,        \* process_specific_categories: categories left and the counts
    feedBroken, \* feed.xml exists and cannot be parsed
    reply       \* LLMFilter: the provider's reply and what was made of it

vars == <<store, feedFile, pc, ret, missing, rotation, hq, rrIdx, batch,
          batchCount, roundCount, grants, run, feedBroken, reply>>

rrVars == <<rotation, hq, rrIdx, batch, batchCount, roundCount, grants>>

\* No reply of the LLM provider is being handled.
NoReply ==
    [content |-> <<>>, stage |-> "none", result |-> <<>>, error |-> "none",
     keys |-> {}, returned |-> {}]

\* No run over requested categories is under way.  fatal names the
\* categories of the run whose processing ended in a fatal error.
NoRun ==
    [queue |-> <<>>, success_count |-> 0, failure_count |-> 0,
     status |-> "none", fatal |-> {}]

\* No document with this id in the collection.
NoDoc ==
    [cat |-> "none", status |-> "none", llm |-> FALSE, score |-> 0,
     reason |-> FALSE, ptf |-> FALSE, bad |-> FALSE]

Range(s) == {s[i] : i \in 1..Len(s)}

NoDup(s) == \A i, j \in 1..Len(s) : s[i] = s[j] => i = j


\* ------------------------------------------------------------ article store

\* The filter {"id": item_id} of find_one and update_one matches a document.
id_matches(st, a) == st[a].status # "none"

\* An existence test that knows pending documents only.
item_exists_pending_only(st, a) == st[a].status = "pending"

\* An existence test that never finds the document.
item_exists_never(st, a) == FALSE

\* An existence test that only knows the articles that were analyzed.
item_exists_only_analyzed(st, a) == id_matches(st, a) /\ st[a].llm

\* MongoDBClient.item_exists: count_documents({"id": item_id}) > 0.
item_exists(st, a) == id_matches(st, a)

\* The order of cursor.sort("published", ASCENDING): ids are handed out in
\* publish-time order; an unusable (out of range) timestamp sorts after every
\* usable one.
SortKey(st, a) == IF st[a].bad THEN MaxArticles + a ELSE a

\* A sort that hands back the youngest first.
RECURSIVE SortByPublished_descending(_, _)
SortByPublished_descending(st, S) ==
    IF S = {} THEN <<>>
    ELSE LET m == CHOOSE x \in S : \A y \in S : SortKey(st, x) >= SortKey(st, y)
         IN  <<m>> \o SortByPublished_descending(st, S \ {m})

RECURSIVE SortByPublished(_, _)
SortByPublished(st, S) ==
    IF S = {} THEN <<>>
    ELSE LET m == CHOOSE x \in S : \A y \in S : SortKey(st, x) <= SortKey(st, y)
         IN  <<m>> \o SortByPublished(st, S \ {m})

\* cursor.limit(n)
Limit(s, n) == IF Len(s) <= n THEN s ELSE SubSeq(s, 1, n)

\* A status query that ignores its limit.
get_items_by_status_unlimited(st, status, cat, limit) ==
    SortByPublished(st, {a \in Articles : st[a].status = status /\ st[a].cat = cat})

\* MongoDBClient.get_items_by_status with a category and a limit
\* (limit 0 is Python's falsy limit: no limit).
get_items_by_status(st, status, cat, limit) ==
    LET hits == {a \in Articles : st[a].status = status /\ st[a].cat = cat}
        sorted == SortByPublished(st, hits)
    IN  IF limit > 0 THEN Limit(sorted, limit) ELSE sorted

\* A query that selects on status and flag only, whatever the score.
filtered_query_any_score(d, min_score, cat) ==
    /\ d.status \in {STATUS_PROCESSED, STATUS_FILTERED}
    /\ d.llm
    /\ ~d.ptf
    /\ (cat = "any" \/ d.cat = cat)

\* The query of MongoDBClient.get_filtered_items; cat = "any" is category=None.
filtered_query(d, min_score, cat) ==
    /\ d.status \in {STATUS_PROCESSED, STATUS_FILTERED}
    /\ d.llm
    /\ d.score >= min_score
    /\ ~d.ptf
    /\ (cat = "any" \/ d.cat = cat)

\* MongoDBClient.get_filtered_items
get_filtered_items(st, min_score, cat) ==
    Limit(SortByPublished(st, {a \in Articles : filtered_query(st[a], min_score, cat)}),
          filtered_limit)

\* MongoDBClient.update_item_status(item_id, status) without llm_analysis:
\* $set processing_status, and published_to_feed when the status is published.
update_item_status(st, a, status) ==
    IF ~id_matches(st, a) THEN st
    ELSE [st EXCEPT ![a].status = status,
                    ![a].ptf = IF status = STATUS_PUBLISHED THEN TRUE ELSE @]

\* MongoDBClient.update_item with the update_data of the analyze phase:
\* $set content_analysis, llm_analysis and processing_status.
update_item(st, a, status, score, reason) ==
    IF ~id_matches(st, a) THEN st
    ELSE [st EXCEPT ![a].status = status, ![a].llm = TRUE,
                    ![a].score = score, ![a].reason = reason]

\* MongoDBClient.store_feed_items for one item: update_one({"id": id},
\* {"$set": item}, upsert=True).  item.status = "none" is an item without
\* processing_status, item.cat = "none" one without category.  Returns the
\* collection and stored_count.
store_feed_items(st, a, item) ==
    LET status == IF item.status = "none" THEN STATUS_PENDING ELSE item.status
        old == st[a]
        new == IF id_matches(st, a)
               THEN [old EXCEPT !.status = status,
                                !.cat = IF item.cat = "none" THEN @ ELSE item.cat,
                                !.bad = item.bad]
               ELSE [NoDoc EXCEPT !.status = status, !.cat = item.cat,
                                  !.bad = item.bad]
        upserted == ~id_matches(st, a)
        modified == id_matches(st, a) /\ new # old
    IN  [store |-> [st EXCEPT ![a] = new],
         count |-> IF upserted \/ modified THEN 1 ELSE 0]

\* ----------------------------------------------------------- feed publisher

\* format_datetime raises on a timestamp datetime cannot represent.
format_datetime_raises(d) == d.bad

\* A duplicate check that finds nothing.
guid_in_channel_never(channel, a) == FALSE

\* A duplicate check that looks at the newest item of the channel only.
guid_in_channel_last(channel, a) ==
    channel # <<>> /\ channel[Len(channel)] = a

\* add_item's duplicate check: some item of the channel has this guid.
guid_in_channel(channel, a) == a \in Range(channel)

\* A loop that marks the article published also when add_item returns False.
skip_duplicate_marks(st, a) == update_item_status(st, a, STATUS_PUBLISHED)

\* The else branch of `if add_item(channel, article)`: a message is printed,
\* the store is not called.
skip_duplicate(st, a) == st

\* The loop of update_feed.main over the queried articles.  stop >= 0 is the
\* number of iterations after which the run is interrupted from outside (the
\* process is killed, the store or the disk fails); stop = -1 is no
\* interruption.  An interruption after the last iteration is a failed write
\* of feed.xml.
RECURSIVE publish_loop(_, _, _, _, _, _)
publish_loop(st, channel, queue, stop, added, skipped) ==
    IF stop = 0
    THEN [store |-> st, channel |-> channel, res |-> "interrupted",
          added |-> added, skipped |-> skipped]
    ELSE IF queue = <<>>
    THEN [store |-> st, channel |-> channel, res |-> "saved",
          added |-> added, skipped |-> skipped]
    ELSE LET a == Head(queue)
             next == IF stop > 0 THEN stop - 1 ELSE stop
         IN  IF guid_in_channel(channel, a)
             THEN publish_loop(skip_duplicate(st, a), channel, Tail(queue), next,
                               added, skipped + 1)
             ELSE IF format_datetime_raises(st[a])
             THEN [store |-> st, channel |-> channel, res |-> "render_error",
                   added |-> added, skipped |-> skipped]
             ELSE publish_loop(update_item_status(st, a, STATUS_PUBLISHED),
                               Append(channel, a), Tail(queue), next,
                               added + 1, skipped)

\* load_feed: DefusedET.parse raises on a feed.xml that cannot be parsed; a
\* feed.xml that does not exist is replaced by a new channel without items.
load_feed_raises == feedBroken

\* A publisher that starts every run from a new channel without items.
update_feed_main_new_channel(st, feed, stop) ==
    LET queue == get_filtered_items(st, publish_min_score, "any")
        r == publish_loop(st, <<>>, queue, stop, 0, 0)
    IN  [store |-> r.store,
         feed |-> IF r.res = "saved" THEN r.channel ELSE feed,
         res |-> r.res, added |-> r.added, skipped |-> r.skipped]

\* update_feed.main: load feed.xml, query, add and mark each article, write
\* feed.xml once at the end.  Returns the store, the file and the outcome.
update_feed_main(st, feed, stop) ==
    LET queue == get_filtered_items(st, publish_min_score, "any")
        r == publish_loop(st, feed, queue, stop, 0, 0)
    IN  IF load_feed_raises
        THEN [store |-> st, feed |-> feed, res |-> "load_error",
              added |-> 0, skipped |-> 0]
        ELSE [store |-> r.store,
              feed |-> IF r.res = "saved" THEN r.channel ELSE feed,
              res |-> r.res, added |-> r.added, skipped |-> r.skipped]

\* Interruption points of a publisher run over the current store.
Stops(st) == -1 .. Len(get_filtered_items(st, publish_min_score, "any"))


\* What a step reports: the operation, its outcome, the count it returned
\* or printed, the articles it was about, and whether it repeated the step
\* before it (a publisher run right after a publisher run that wrote the
\* file, an ingestion of an id the store knew), and whether the step called
\* update_feed.main() on reaching the high quality target.
Ret(op, res, n, ids) ==
    [op |-> op, res |-> res, n |-> n, ids |-> ids, rerun |-> FALSE,
     trigger |-> FALSE]

\* -------------------------------------------------------------- fetch phase

\* The loop of fetch_category_articles over data["items"] (ids in S, those in
\* B carrying an unusable publish timestamp): known ids are skipped, new ones
\* are stamped with the category and pending and stored.
RECURSIVE fetch_loop(_, _, _, _, _)
fetch_loop(st, c, items, B, new_articles) ==
    IF items = <<>> THEN [store |-> st, count |-> new_articles]
    ELSE LET a == Head(items)
         IN  IF item_exists(st, a)
             THEN fetch_loop(st, c, Tail(items), B, new_articles)
             ELSE fetch_loop(
                    store_feed_items(st, a,
                        [cat |-> c, status |-> STATUS_PENDING, bad |-> a \in B]).store,
                    c, Tail(items), B, new_articles + 1)

RECURSIVE SeqOfSet(_)
SeqOfSet(S) ==
    IF S = {} THEN <<>>
    ELSE LET m == CHOOSE x \in S : \A y \in S : x <= y
         IN  <<m>> \o SeqOfSet(S \ {m})

\* fetch_category_articles(category_key): returns the store and new_articles.
fetch_category_articles(st, c, S, B) == fetch_loop(st, c, SeqOfSet(S), B, 0)

FetchCategory(c, S, B) ==
    /\ pc = "idle"
    /\ LET r == fetch_category_articles(store, c, S, B)
       IN  /\ store' = r.store
           /\ ret' = Ret("fetch", "ok", r.count, S)
    /\ UNCHANGED <<feedFile, pc, missing, rrVars, run, feedBroken, reply>>

\* ------------------------------------------------------------ publisher run

\* update_feed.main run on its own (python update_feed.py).
Publish(stop) ==
    /\ pc = "idle"
    /\ LET r == update_feed_main(store, feedFile, stop)
       IN  /\ store' = r.store
           /\ feedFile' = r.feed
           /\ ret' = [Ret("publish", r.res, r.added, {}) EXCEPT
                         !.rerun = ret.op = "publish" /\ ret.res = "saved"]
    /\ UNCHANGED <<pc, missing, rrVars, run, feedBroken, reply>>

\* --------------------------------------------------------------- reconciler

\* _get_processed_articles: W is the set of articles whose published or
\* crawled time lies in the trailing 24 hours.
get_processed_articles(st, W, min_score) ==
    {a \in W : /\ st[a].status \in {STATUS_PROCESSED, STATUS_PUBLISHED}
               /\ st[a].llm
               /\ st[a].score >= min_score}

\* A reading of feed.xml that takes every article for present when the
\* document cannot be parsed.
get_xml_article_ids_all(feed) == IF feedBroken THEN Articles ELSE Range(feed)

\* _get_xml_article_ids: the guids of the items of feed.xml; the empty set
\* when there is no feed.xml (a document without items here) or when the
\* parse raises.
get_xml_article_ids(feed) == IF feedBroken THEN {} ELSE Range(feed)

\* A comparison that takes every candidate for missing.
find_missing_articles_all(processed_articles, xml_article_ids) ==
    processed_articles

\* _find_missing_articles
find_missing_articles(processed_articles, xml_article_ids) ==
    processed_articles \ xml_article_ids

\* A repair write that removes the flag from every record of the store.
unset_published_to_feed_everywhere(st, ids) ==
    [a \in Articles |-> [st[a] EXCEPT !.ptf = FALSE]]

\* A repair write that also puts the articles back to processed.
unset_published_to_feed_reopen(st, ids) ==
    [a \in Articles |->
        IF a \in ids THEN [st[a] EXCEPT !.ptf = FALSE, !.status = STATUS_PROCESSED]
        ELSE st[a]]

\* update_many({"id": {"$in": ids}}, {"$unset": {"published_to_feed": ""}})
unset_published_to_feed(st, ids) ==
    [a \in Articles |-> IF a \in ids THEN [st[a] EXCEPT !.ptf = FALSE] ELSE st[a]]

\* reconcile_processed_articles up to the call of update_feed_main.
ReconcileStart(W) ==
    /\ pc = "idle"
    /\ LET processed_articles ==
               get_processed_articles(store, W, default_quality_threshold)
           miss == find_missing_articles(processed_articles,
                                         get_xml_article_ids(feedFile))
       IN  IF processed_articles = {}
           THEN /\ ret' = Ret("reconcile", "nothing", 0, {})
                /\ UNCHANGED <<store, pc, missing>>
           ELSE IF miss = {}
           THEN /\ ret' = Ret("reconcile", "in_sync", 0, {})
                /\ UNCHANGED <<store, pc, missing>>
           ELSE /\ store' = unset_published_to_feed(store, miss)
                /\ missing' = miss
                /\ pc' = "recon_publish"
                /\ ret' = Ret("reconcile_clear", "ok", Cardinality(miss), miss)
    /\ UNCHANGED <<feedFile, rrVars, run, feedBroken, reply>>

\* reconcile_processed_articles from update_feed_main() to its end; an
\* exception of the publisher leaves through sys.exit(1).
ReconcilePublish(stop) ==
    /\ pc = "recon_publish"
    /\ LET r == update_feed_main(store, feedFile, stop)
       IN  /\ store' = r.store
           /\ feedFile' = r.feed
           /\ ret' = Ret("reconcile", r.res, r.added, missing)
    /\ missing' = {}
    /\ pc' = "idle"
    /\ UNCHANGED <<rrVars, run, feedBroken, reply>>


\* ------------------------------------------------------------ analyze phase

\* What the analysis of one article can come to: the content step, the LLM
\* call, the validation of its reply or the store update raises ("fail"), or
\* the LLM reply carries a relevance_score without filtered_reason, or the
\* top score with a filtered_reason.
Outcomes ==
    {[kind |-> "fail", score |-> 0, reason |-> FALSE]} \cup
    {[kind |-> "ok", score |-> s, reason |-> FALSE] : s \in Scores} \cup
    {[kind |-> "ok", score |-> 60, reason |-> TRUE]}

\* The backlog runs of SpecRR: the LLM call fails or gives a score that
\* passes every threshold, without filtered_reason.
BacklogOutcomes ==
    {[kind |-> "fail", score |-> 0, reason |-> FALSE],
     [kind |-> "ok", score |-> 60, reason |-> FALSE]}

\* _process_single_item after both analyses returned: the processing_status
\* it puts on the item.
item_status(score, reason, quality_threshold) ==
    IF reason THEN STATUS_FILTERED ELSE STATUS_PROCESSED

\* _process_single_item's return value: 1 is high quality, 0 is not.
quality_result(score, reason, quality_threshold) ==
    IF reason THEN 0
    ELSE IF score >= quality_threshold THEN 1 ELSE 0

\* An attempt that writes the item as processed although the analysis raised.
analyze_and_store_marks(st, a, out, quality_threshold) ==
    update_item(st, a, STATUS_PROCESSED, out.score, out.reason)

\* The store after one attempt of the try block of _process_category_batch
\* up to update_item: an exception of the content step, the LLM call, the
\* validation or update_one leaves before anything is written.
analyze_and_store(st, a, out, quality_threshold) ==
    IF out.kind = "fail" THEN st
    ELSE update_item(st, a, item_status(out.score, out.reason, quality_threshold),
                     out.score, out.reason)

\* A test that never finds an earlier analysis.
already_analyzed_never(st, a) == FALSE

\* _process_single_item's first check: the stored item is already analyzed.
already_analyzed(st, a) == id_matches(st, a) /\ st[a].llm

\* _process_category_batch's trigger test after high_quality_count += 1.
trigger_reached(count, target) == count >= target

\* A for loop that gives up the rest of the batch.
BatchStep_abort(rest, processed) ==
    /\ batch' = <<>>
    /\ roundCount' = roundCount + processed
    /\ batchCount' = 0
    /\ rrIdx' = rrIdx + 1
    /\ pc' = "rr"

\* A for loop that stays on the article it is at.
BatchStep_stuck(rest, processed) ==
    UNCHANGED <<batch, batchCount, roundCount, rrIdx, pc>>

\* leaving _process_category_batch when the for loop is over: the caller adds
\* the returned articles_processed to the round and goes to the next category
BatchStep(rest, processed) ==
    /\ batch' = rest
    /\ IF rest = <<>>
       THEN /\ roundCount' = roundCount + processed
            /\ batchCount' = 0
            /\ rrIdx' = rrIdx + 1
            /\ pc' = "rr"
       ELSE /\ batchCount' = processed
            /\ UNCHANGED <<roundCount, rrIdx, pc>>

\* One iteration of the for loop of _process_category_batch, the triggered
\* update_feed.main() included.  O are the analysis outcomes, K the
\* interruption points allowed for the triggered publisher run.
ProcessItem(O, K) ==
    /\ pc = "rr_item"
    /\ batch # <<>>
    /\ LET a == Head(batch)
           c == categories[rrIdx]
           t == get_quality_threshold(c)
       IN  IF already_analyzed(store, a)
           THEN /\ ret' = Ret("analyze", "skipped", 0, {a})
                /\ BatchStep(Tail(batch), batchCount)
                /\ UNCHANGED <<store, feedFile, hq>>
           ELSE \E out \in O :
                IF out.kind = "fail"
                THEN /\ ret' = Ret("analyze", "failed", 0, {a})
                     /\ BatchStep(Tail(batch), batchCount)
                     /\ store' = analyze_and_store(store, a, out, t)
                     /\ UNCHANGED <<feedFile, hq>>
                ELSE LET st1 == analyze_and_store(store, a, out, t)
                         q == quality_result(out.score, out.reason, t)
                         count == hq[c] + q
                     IN  IF q = 1 /\ trigger_reached(count, get_high_quality_target(c))
                         THEN \E stop \in Stops(st1) \cap K :
                              LET r == update_feed_main(st1, feedFile, stop)
                              IN  /\ store' = r.store
                                  /\ feedFile' = r.feed
                                  /\ IF r.res = "saved"
                                     THEN /\ hq' = [hq EXCEPT ![c] = 0]
                                          /\ BatchStep(Tail(batch), batchCount + 1)
                                          /\ ret' = [Ret("analyze", "advanced", q, {a})
                                                        EXCEPT !.trigger = TRUE]
                                     ELSE /\ hq' = [hq EXCEPT ![c] = count]
                                          /\ BatchStep(Tail(batch), batchCount)
                                          /\ ret' = [Ret("analyze", r.res, q, {a})
                                                        EXCEPT !.trigger = TRUE]
                         ELSE /\ store' = st1
                              /\ hq' = [hq EXCEPT ![c] = count]
                              /\ BatchStep(Tail(batch), batchCount + 1)
                              /\ ret' = Ret("analyze", "advanced", q, {a})
                              /\ UNCHANGED feedFile
    /\ UNCHANGED <<missing, rotation, grants, run, feedBroken, reply>>

\* ----------------------------------------------------- round-robin scheduler

\* process_pending_articles_round_robin up to the while loop:
\* _initialize_category_components keeps the categories whose components
\* could be built (rot), each with high_quality_count 0.
RoundRobinStart(rot) ==
    /\ pc = "idle"
    /\ rotation' = rot
    /\ hq' = [c \in Categories |-> 0]
    /\ grants' = [c \in Categories |-> 0]
    /\ rrIdx' = 1
    /\ roundCount' = 0
    /\ batch' = <<>>
    /\ batchCount' = 0
    /\ pc' = "rr"
    /\ ret' = Ret("round_robin", "started", 0, {})
    /\ UNCHANGED <<store, feedFile, missing, run, feedBroken, reply>>

\* The body of `for category_key in categories` up to the for loop of
\* _process_category_batch: a category without components is passed over,
\* the others are asked for one batch of at most batch_size pending articles.
CategoryBatch ==
    /\ pc = "rr"
    /\ rrIdx <= Len(categories)
    /\ LET c == categories[rrIdx]
           pending_articles ==
               get_items_by_status(store, STATUS_PENDING, c, batch_size)
       IN  IF c \notin rotation
           THEN /\ rrIdx' = rrIdx + 1
                /\ ret' = Ret("batch", "no_components", 0, {})
                /\ UNCHANGED <<batch, grants, pc>>
           ELSE /\ grants' = [grants EXCEPT ![c] = @ + 1]
                /\ ret' = Ret("batch", c, Len(pending_articles), Range(pending_articles))
                /\ IF pending_articles = <<>>
                   THEN /\ rrIdx' = rrIdx + 1
                        /\ UNCHANGED <<batch, pc>>
                   ELSE /\ batch' = pending_articles
                        /\ pc' = "rr_item"
                        /\ UNCHANGED rrIdx
    /\ UNCHANGED <<store, feedFile, missing, rotation, hq, batchCount, roundCount,
                   run, feedBroken, reply>>

\* The scheduler's frame is gone once it returns.
RoundRobinReturns ==
    /\ rotation' = {}
    /\ hq' = [c \in Categories |-> 0]
    /\ grants' = [c \in Categories |-> 0]
    /\ rrIdx' = 1
    /\ roundCount' = 0
    /\ batch' = <<>>
    /\ batchCount' = 0

\* A stop test that also takes a round with one article for a fixed point.
round_is_over_at_one(articles_processed_this_round) ==
    articles_processed_this_round <= 1

\* `if articles_processed_this_round == 0: break`
round_is_over(articles_processed_this_round) ==
    articles_processed_this_round = 0

\* The articles of the rotation categories that are pending.
PendingOfRotation ==
    {a \in Articles : store[a].status = STATUS_PENDING /\ store[a].cat \in rotation}

\* The end of one pass of `while True`: stop when the round advanced nothing.
\* The report of the stop names the articles the run leaves pending.
RoundEnd ==
    /\ pc = "rr"
    /\ rrIdx > Len(categories)
    /\ IF round_is_over(roundCount)
       THEN /\ pc' = "idle"
            /\ ret' = Ret("round_robin", "done", 0, PendingOfRotation)
            /\ RoundRobinReturns
       ELSE /\ rrIdx' = 1
            /\ roundCount' = 0
            /\ ret' = Ret("round_robin", "next_round", roundCount, {})
            /\ UNCHANGED <<pc, rotation, hq, batch, batchCount, grants>>
    /\ UNCHANGED <<store, feedFile, missing, run, feedBroken, reply>>

\* ------------------------------------------------------------ specification

\* data["items"] of one call of the feed source: a single raw article, or
\* all the source has.
FeedResponses == {{a} : a \in FetchIds} \cup {FetchIds}

\* The trailing 24 hours of the reconciler hold every fetched article, or
\* every one but the oldest.
Windows == {FetchIds, FetchIds \ {1}}

\* feed.xml is either not there yet or carries items of an earlier
\* deployment (the store is a separate database and starts empty).
Init ==
    /\ store = [a \in Articles |-> NoDoc]
    /\ feedFile \in {<<>>, <<1>>}
    /\ pc = "idle"
    /\ ret = Ret("none", "none", 0, {})
    /\ missing = {}
    /\ rotation = {}
    /\ hq = [c \in Categories |-> 0]
    /\ grants = [c \in Categories |-> 0]
    /\ rrIdx = 1
    /\ batch = <<>>
    /\ batchCount = 0
    /\ roundCount = 0
    /\ run = NoRun
    /\ reply = NoReply
    /\ feedBroken = FALSE

Next ==
    \/ \E c \in Categories, S \in FeedResponses : \E B \in SUBSET (S \cap BadIds) :
           FetchCategory(c, S, B)
    \/ \E stop \in Stops(store) : Publish(stop)
    \/ \E W \in Windows : ReconcileStart(W)
    \/ \E stop \in Stops(store) : ReconcilePublish(stop)
    \/ RoundRobinStart(Categories)
    \/ CategoryBatch
    \/ ProcessItem(Outcomes, -1 .. MaxArticles)
    \/ RoundEnd

Spec == Init /\ [][Next]_vars


\* ------------------------------------------- specification: a backlog run

\* The store with a backlog: the articles 1..MaxArticles-1 pending in A, the
\* newest one pending in B.
BacklogCategory(a) == IF a < MaxArticles THEN "A" ELSE "B"

\* The article of B may be one that was analyzed before and then ingested
\* again through store_feed_items: pending, with llm_analysis on its record.
BacklogDoc(a, analyzed) ==
    [NoDoc EXCEPT !.cat = BacklogCategory(a), !.status = STATUS_PENDING,
                  !.llm = (analyzed /\ BacklogCategory(a) = "B"),
                  !.score = IF analyzed /\ BacklogCategory(a) = "B" THEN 60 ELSE 0]

\* The sets of categories whose _initialize_components raises: none, or the
\* first of the list.
Failing == {{}, {categories[1]}}

\* An initialization that gives up at the first category that fails.
initialize_category_components_abort(failing) ==
    {categories[i] : i \in {j \in 1 .. Len(categories) :
                                \A k \in 1 .. j : categories[k] \notin failing}}

\* _initialize_category_components: the except clause logs the error and
\* continues, so the result holds every category that did not fail.
initialize_category_components(failing) == Categories \ failing

\* The categories whose components could be built.
Rotations == {initialize_category_components(F) : F \in Failing}

InitRR ==
    /\ \E analyzed \in BOOLEAN :
           store = [a \in Articles |-> BacklogDoc(a, analyzed)]
    /\ feedFile = <<>>
    /\ pc = "idle"
    /\ ret = Ret("none", "none", 0, {})
    /\ missing = {}
    /\ rotation = {}
    /\ hq = [c \in Categories |-> 0]
    /\ grants = [c \in Categories |-> 0]
    /\ rrIdx = 1
    /\ batch = <<>>
    /\ batchCount = 0
    /\ roundCount = 0
    /\ run = NoRun
    /\ reply = NoReply
    /\ feedBroken = FALSE

\* One run of the scheduler over the backlog.
NextRR ==
    \/ ret.op = "none" /\ \E rot \in Rotations : RoundRobinStart(rot)
    \/ CategoryBatch
    \/ ProcessItem(BacklogOutcomes, {-1, 0})
    \/ RoundEnd

SpecRR == InitRR /\ [][NextRR]_vars


\* ------------------------------- specification: direct ingestion included

\* MongoDBClient.store_feed_items called by an ingestion path that does not
\* ask item_exists first (FeedScheduler.fetch_and_store): the normalized item
\* of a raw article, without category and without processing_status.  The
\* raw article keeps its publish timestamp from one ingestion to the next.
StoreFeedItems(a, bad) ==
    /\ pc = "idle"
    /\ id_matches(store, a) => bad = store[a].bad
    /\ LET r == store_feed_items(store, a,
                    [cat |-> "none", status |-> "none", bad |-> bad])
       IN  /\ store' = r.store
           /\ ret' = [Ret("store", "ok", r.count, {a}) EXCEPT
                         !.rerun = id_matches(store, a)]
    /\ UNCHANGED <<feedFile, pc, missing, rrVars, run, feedBroken, reply>>

NextStore ==
    \/ Next
    \/ \E a \in FetchIds : \E bad \in (IF a \in BadIds THEN BOOLEAN ELSE {FALSE}) :
           StoreFeedItems(a, bad)

SpecStore == Init /\ [][NextStore]_vars

\* ------------------------------ specification: the all-categories pipeline

\* Phase 1 of process_all_categories: fetch_category_articles for each
\* category of the list, summing the counts of new articles.  resp[c] is what
\* the feed source returns for c (nothing, when it has nothing or the fetch
\* raises).
RECURSIVE fetch_phase(_, _, _, _, _)
fetch_phase(st, cats, resp, B, total_fetched) ==
    IF cats = <<>> THEN [store |-> st, total |-> total_fetched]
    ELSE LET r == fetch_category_articles(st, Head(cats), resp[Head(cats)], B)
         IN  fetch_phase(r.store, Tail(cats), resp, B, total_fetched + r.count)

\* `if total_fetched > 0:` before process_pending_articles_round_robin.
run_phase_two(total_fetched) == total_fetched > 0

\* process_all_categories up to the while loop of the scheduler: phase 1,
\* and phase 2 when phase 1 fetched something new.
ProcessAllCategories(resp, B) ==
    /\ pc = "idle"
    /\ LET r == fetch_phase(store, categories, resp, B, 0)
       IN  /\ store' = r.store
           /\ IF run_phase_two(r.total)
              THEN /\ rotation' = Categories
                   /\ hq' = [c \in Categories |-> 0]
                   /\ grants' = [c \in Categories |-> 0]
                   /\ rrIdx' = 1
                   /\ roundCount' = 0
                   /\ batch' = <<>>
                   /\ batchCount' = 0
                   /\ pc' = "rr"
                   /\ ret' = Ret("all_categories", "round_robin", r.total, {})
              ELSE /\ ret' = Ret("all_categories", "no_new_articles", r.total, {})
                   /\ UNCHANGED <<pc, rrVars>>
    /\ UNCHANGED <<feedFile, missing, run, feedBroken, reply>>

NextAll ==
    \/ \E resp \in [Categories -> FeedResponses \cup {{}}], B \in SUBSET BadIds :
           ProcessAllCategories(resp, B)
    \/ CategoryBatch
    \/ ProcessItem(Outcomes, -1 .. MaxArticles)
    \/ RoundEnd

SpecAll == Init /\ [][NextAll]_vars

\* ---------------------------- specification: runs over requested categories

\* main's `except Exception as e: logger.error(...)`: the error is logged
\* and main returns; nothing is raised to the caller.
main_raises(fatal) == FALSE

\* process_single_category: True unless main raised.
process_single_category(fatal) == ~main_raises(fatal)

\* `if failure_count > 0: sys.exit(1)` at the end of
\* process_specific_categories.
exit_status(failure_count) == IF failure_count > 0 THEN "exit1" ELSE "exit0"

\* _process_pending_articles_step's trigger test after high_quality_count += 1.
step_trigger_reached(count, target) == count = target

\* The category lists a run can be asked for (validate_categories lets only
\* configured categories through).
Requests == {<<c>> : c \in Categories} \cup {categories}

\* process_specific_categories up to the first process_single_category.
ProcessSpecificCategories(cats) ==
    /\ pc = "idle"
    /\ run' = [NoRun EXCEPT !.queue = cats, !.status = "running"]
    /\ pc' = "main"
    /\ ret' = Ret("run", "started", 0, {})
    /\ UNCHANGED <<store, feedFile, missing, rrVars, feedBroken, reply>>

\* main has ended for the category at the head of the queue:
\* process_single_category returns, the loop of process_specific_categories
\* counts it and goes on, or prints the summary and exits.
CategoryReturns(fatal) ==
    LET c == Head(run.queue)
        ok == process_single_category(fatal)
        f == run.failure_count + (IF ok THEN 0 ELSE 1)
        rest == Tail(run.queue)
    IN  /\ run' = [queue |-> rest,
                   success_count |-> run.success_count + (IF ok THEN 1 ELSE 0),
                   failure_count |-> f,
                   status |-> IF rest = <<>> THEN exit_status(f) ELSE "running",
                   fatal |-> IF fatal THEN run.fatal \cup {c} ELSE run.fatal]
        /\ pc' = IF rest = <<>> THEN "idle" ELSE "main"

\* main, step 1 and the query of step 2: fetch the category, then read all
\* its pending articles.
MainStart(S, B) ==
    /\ pc = "main"
    /\ LET c == Head(run.queue)
           r == fetch_category_articles(store, c, S, B)
           pending_articles == get_items_by_status(r.store, STATUS_PENDING, c, 0)
       IN  /\ store' = r.store
           /\ ret' = Ret("main", "fetched", r.count, {})
           /\ IF pending_articles = <<>>
              THEN /\ pc' = "main_publish"
                   /\ UNCHANGED <<batch, hq>>
              ELSE /\ pc' = "main_item"
                   /\ batch' = pending_articles
                   /\ hq' = [hq EXCEPT ![c] = 0]
    /\ UNCHANGED <<feedFile, missing, rotation, rrIdx, batchCount, roundCount,
                   grants, run, feedBroken, reply>>

\* One iteration of the for loop of _process_pending_articles_step, the
\* triggered update_feed.main() included; an exception is caught by the
\* loop's except and the loop goes on.
MainItem(O, K) ==
    /\ pc = "main_item"
    /\ batch # <<>>
    /\ LET a == Head(batch)
           c == Head(run.queue)
           t == get_quality_threshold(c)
       IN  /\ batch' = Tail(batch)
           /\ pc' = IF Tail(batch) = <<>> THEN "main_publish" ELSE "main_item"
           /\ IF already_analyzed(store, a)
              THEN /\ ret' = Ret("main", "skipped", 0, {a})
                   /\ UNCHANGED <<store, feedFile, hq>>
              ELSE \E out \in O :
                   LET st1 == analyze_and_store(store, a, out, t)
                       q == IF out.kind = "fail" THEN 0
                            ELSE quality_result(out.score, out.reason, t)
                       count == hq[c] + q
                   IN  IF q = 1 /\ step_trigger_reached(count, get_high_quality_target(c))
                       THEN \E stop \in Stops(st1) \cap K :
                            LET r == update_feed_main(st1, feedFile, stop)
                            IN  /\ store' = r.store
                                /\ feedFile' = r.feed
                                /\ hq' = [hq EXCEPT ![c] = IF r.res = "saved"
                                                           THEN 0 ELSE count]
                                /\ ret' = [Ret("main", r.res, q, {a})
                                              EXCEPT !.trigger = TRUE]
                       ELSE /\ store' = st1
                            /\ hq' = [hq EXCEPT ![c] = count]
                            /\ ret' = Ret("main", IF out.kind = "fail" THEN "failed"
                                                  ELSE "advanced", q, {a})
                            /\ UNCHANGED feedFile
    /\ UNCHANGED <<missing, rotation, rrIdx, batchCount, roundCount, grants, run,
                   feedBroken, reply>>

\* A final step that calls the publisher whatever the store holds.
publish_step_runs_always(unpublished_articles) == TRUE

\* `if unpublished_articles:` in _publish_unpublished_articles_step.
publish_step_runs(unpublished_articles) == unpublished_articles # <<>>

\* main, step 3: _publish_unpublished_articles_step, then the end of main.
\* An exception of update_feed.main() reaches main's except clause.
MainPublish(K) ==
    /\ pc = "main_publish"
    /\ LET c == Head(run.queue)
           unpublished_articles ==
               get_filtered_items(store, get_quality_threshold(c), c)
       IN  IF ~publish_step_runs(unpublished_articles)
           THEN /\ ret' = Ret("main_publish", "nothing_to_publish", 0, {})
                /\ UNCHANGED <<store, feedFile>>
           ELSE \E stop \in Stops(store) \cap K :
                LET r == update_feed_main(store, feedFile, stop)
                IN  /\ store' = r.store
                    /\ feedFile' = r.feed
                    /\ ret' = [Ret("main_publish", r.res, r.added,
                                   Range(unpublished_articles))
                                  EXCEPT !.trigger = TRUE]
    /\ CategoryReturns(FALSE)
    /\ UNCHANGED <<missing, rrVars, feedBroken, reply>>

\* The store is unreachable or the configuration cannot be read: the call
\* main is at raises, outside the per-article try of step 2.
MainFatal ==
    /\ pc \in {"main", "main_publish"}
    /\ ret' = Ret("main", "fatal", 0, {})
    /\ CategoryReturns(TRUE)
    /\ UNCHANGED <<store, feedFile, missing, rrVars, feedBroken, reply>>

NextRun ==
    \/ \E cats \in Requests : ProcessSpecificCategories(cats)
    \/ \E S \in FeedResponses \cup {{}}, B \in SUBSET BadIds : MainStart(S, B)
    \/ MainItem(Outcomes, -1 .. MaxArticles)
    \/ MainPublish(-1 .. MaxArticles)
    \/ MainFatal

SpecRun == Init /\ [][NextRun]_vars

\* --------------------- specification: the reconciler and a damaged feed.xml

\* The records an article of the window can have when the reconciler runs:
\* none, pending, analyzed below or at the default threshold, published.
XmlDocs ==
    {NoDoc,
     [NoDoc EXCEPT !.cat = "A", !.status = STATUS_PENDING]}
    \cup {[NoDoc EXCEPT !.cat = "A", !.status = STATUS_PROCESSED, !.llm = TRUE,
                        !.score = sc] : sc \in Scores}
    \cup {[NoDoc EXCEPT !.cat = "A", !.status = STATUS_PUBLISHED, !.llm = TRUE,
                        !.score = 60, !.ptf = TRUE]}

\* feed.xml is deleted, or overwritten with something that is not XML, by
\* something outside the pipeline (a failed merge, a checkout).
FeedDamaged(broken) ==
    /\ pc = "idle"
    /\ feedFile' = <<>>
    /\ feedBroken' = broken
    /\ ret' = Ret("feed_damaged", IF broken THEN "unparseable" ELSE "missing", 0, {})
    /\ UNCHANGED <<store, pc, missing, rrVars, run, reply>>

InitXml ==
    /\ store \in [Articles -> XmlDocs]
    /\ \A a \in Articles \ FetchIds : store[a] = NoDoc
    /\ feedFile = <<>>
    /\ feedBroken \in BOOLEAN
    /\ pc = "idle"
    /\ ret = Ret("none", "none", 0, {})
    /\ missing = {}
    /\ rotation = {}
    /\ hq = [c \in Categories |-> 0]
    /\ grants = [c \in Categories |-> 0]
    /\ rrIdx = 1
    /\ batch = <<>>
    /\ batchCount = 0
    /\ roundCount = 0
    /\ run = NoRun
    /\ reply = NoReply

NextXml ==
    \/ \E W \in Windows : ReconcileStart(W)
    \/ \E stop \in Stops(store) : ReconcilePublish(stop)
    \/ \E stop \in Stops(store) : Publish(stop)
    \/ \E broken \in BOOLEAN : FeedDamaged(broken)

SpecXml == InitXml /\ [][NextXml]_vars

\* ------------------------------- specification: LLMFilter's JSON extraction

\* Replies are strings of at most MaxLen characters over the characters the
\* extraction tells apart: the braces, the double quote, white space, and a
\* character that is none of these.
Chars == {"{", "}", "q", " ", "a"}

Contents == UNION {[1 .. n -> Chars] : n \in 0 .. MaxLen}

\* str.strip(): leading and trailing white space removed.
RECURSIVE lstrip(_)
lstrip(s) == IF s # <<>> /\ Head(s) = " " THEN lstrip(Tail(s)) ELSE s

RECURSIVE rstrip(_)
rstrip(s) ==
    IF s # <<>> /\ s[Len(s)] = " " THEN rstrip(SubSeq(s, 1, Len(s) - 1)) ELSE s

strip(s) == rstrip(lstrip(s))

\* str.find(ch) with positions from 1: 0 when ch does not occur.
find(s, ch) ==
    IF \E i \in 1 .. Len(s) : s[i] = ch
    THEN CHOOSE i \in 1 .. Len(s) : s[i] = ch /\ \A j \in 1 .. i - 1 : s[j] # ch
    ELSE 0

\* A scan that does not count the braces inside string literals.
RECURSIVE count_braces_in_code(_, _, _, _)
count_braces_in_code(content, i, brace_count, in_string) ==
    IF i > Len(content) THEN [json_end |-> 0, brace_count |-> brace_count]
    ELSE IF content[i] = "q"
    THEN count_braces_in_code(content, i + 1, brace_count, ~in_string)
    ELSE IF in_string THEN count_braces_in_code(content, i + 1, brace_count, TRUE)
    ELSE IF content[i] = "{"
    THEN count_braces_in_code(content, i + 1, brace_count + 1, FALSE)
    ELSE IF content[i] = "}"
    THEN IF brace_count - 1 = 0 THEN [json_end |-> i, brace_count |-> 0]
         ELSE count_braces_in_code(content, i + 1, brace_count - 1, FALSE)
    ELSE count_braces_in_code(content, i + 1, brace_count, FALSE)

count_braces_outside_strings(content, i, brace_count) ==
    count_braces_in_code(content, i, brace_count, FALSE)

\* A scan that takes the end of the content for the closing brace.
RECURSIVE count_braces_lenient(_, _, _)
count_braces_lenient(content, i, brace_count) ==
    IF i > Len(content) THEN [json_end |-> Len(content), brace_count |-> 0]
    ELSE IF content[i] = "{" THEN count_braces_lenient(content, i + 1, brace_count + 1)
    ELSE IF content[i] = "}"
    THEN IF brace_count - 1 = 0 THEN [json_end |-> i, brace_count |-> 0]
         ELSE count_braces_lenient(content, i + 1, brace_count - 1)
    ELSE count_braces_lenient(content, i + 1, brace_count)

\* The for loop of _extract_json_from_content from position i on: every
\* brace is counted, the loop breaks at the "}" that brings the count to 0.
RECURSIVE count_braces(_, _, _)
count_braces(content, i, brace_count) ==
    IF i > Len(content) THEN [json_end |-> 0, brace_count |-> brace_count]
    ELSE IF content[i] = "{" THEN count_braces(content, i + 1, brace_count + 1)
    ELSE IF content[i] = "}"
    THEN IF brace_count - 1 = 0 THEN [json_end |-> i, brace_count |-> 0]
         ELSE count_braces(content, i + 1, brace_count - 1)
    ELSE count_braces(content, i + 1, brace_count)

\* LLMFilter._extract_json_from_content: the extracted string, or the
\* ValueError it raises.
extract_json_from_content(raw) ==
    LET content == strip(raw)
        json_start == find(content, "{")
        r == count_braces(content, json_start, 0)
        extracted == SubSeq(content, json_start, r.json_end)
    IN  IF json_start = 0
        THEN [result |-> <<>>, error |-> "No JSON object found in content"]
        ELSE IF r.brace_count # 0
        THEN [result |-> <<>>, error |-> "Unmatched braces in JSON content"]
        ELSE IF strip(extracted) = <<>>
        THEN [result |-> <<>>, error |-> "Empty JSON content extracted"]
        ELSE [result |-> extracted, error |-> "none"]

\* extracted_json = self._extract_json_from_content(content)
ExtractJson ==
    /\ reply.stage = "reply"
    /\ LET r == extract_json_from_content(reply.content)
       IN  reply' = [reply EXCEPT !.stage = "extracted", !.result = r.result,
                                  !.error = r.error]
    /\ UNCHANGED <<store, feedFile, pc, ret, missing, rrVars, run, feedBroken>>

\* The provider has answered: the reply is any string of Contents.
InitJson ==
    /\ store = [a \in Articles |-> NoDoc]
    /\ feedFile = <<>>
    /\ pc = "idle"
    /\ ret = Ret("none", "none", 0, {})
    /\ missing = {}
    /\ rotation = {}
    /\ hq = [c \in Categories |-> 0]
    /\ grants = [c \in Categories |-> 0]
    /\ rrIdx = 1
    /\ batch = <<>>
    /\ batchCount = 0
    /\ roundCount = 0
    /\ run = NoRun
    /\ feedBroken = FALSE
    /\ reply \in {[NoReply EXCEPT !.content = c, !.stage = "reply"] : c \in Contents}

\* LLMFilter.REQUIRED_FIELDS
REQUIRED_FIELDS == {"relevance_score", "summary", "key_topics"}

\* The keys the object of a reply can have: the required ones, or all of
\* them but one.
KeySets == {REQUIRED_FIELDS} \cup {REQUIRED_FIELDS \ {f} : f \in REQUIRED_FIELDS}

\* json.loads over the characters of Chars, from position i on: "q" opens
\* and closes a string literal, inside which every character is allowed;
\* outside there are braces and white space only, and the text is one
\* object that closes at its last character.
RECURSIVE json_object(_, _, _, _)
json_object(text, i, depth, in_string) ==
    IF i > Len(text) THEN depth = 0 /\ ~in_string
    ELSE IF text[i] = "q" THEN json_object(text, i + 1, depth, ~in_string)
    ELSE IF in_string THEN json_object(text, i + 1, depth, TRUE)
    ELSE IF text[i] = "{" THEN json_object(text, i + 1, depth + 1, FALSE)
    ELSE IF text[i] = "}"
    THEN depth >= 1 /\ (depth = 1 => i = Len(text))
         /\ json_object(text, i + 1, depth - 1, FALSE)
    ELSE text[i] = " " /\ json_object(text, i + 1, depth, FALSE)

\* json.loads(extracted_json) raises JSONDecodeError.
json_loads_raises(text) ==
    ~(text # <<>> /\ text[1] = "{" /\ json_object(text, 1, 0, FALSE))

\* A validation that passes a result without looking at its fields.
validate_result_raises_never(keys) == FALSE

\* LLMFilter._validate_result raises when a required field is not a key.
validate_result_raises(keys) == \E field \in REQUIRED_FIELDS : field \notin keys

\* _analyze_with_ollama after the extraction: json.loads, the metadata key,
\* _validate_result.  Every exception is raised again as a ValueError, by
\* analyze_item as well; keys are the keys of the object when it parses.
AnalyzeReturns(K) ==
    /\ reply.stage = "extracted"
    /\ IF reply.error # "none"
       THEN reply' = [reply EXCEPT !.stage = "raised"]
       ELSE IF json_loads_raises(reply.result)
       THEN reply' = [reply EXCEPT !.stage = "raised",
                                   !.error = "Invalid JSON in response"]
       ELSE \E keys \in K :
            IF validate_result_raises(keys \cup {"_analysis_metadata"})
            THEN reply' = [reply EXCEPT !.stage = "raised", !.keys = keys,
                                        !.error = "Missing required field in response"]
            ELSE reply' = [reply EXCEPT !.stage = "returned", !.keys = keys,
                                        !.returned = keys \cup {"_analysis_metadata"}]
    /\ UNCHANGED <<store, feedFile, pc, ret, missing, rrVars, run, feedBroken>>

NextJson ==
    \/ ExtractJson
    \/ AnalyzeReturns(KeySets)

SpecJson == InitJson /\ [][NextJson]_vars

\* ----------------------- specification: a category fetch with a failing call

\* The loop of fetch_category_articles when a call to the store raises in
\* iteration fail (item_exists or store_feed_items; 0 is no failure): the
\* loop has no try of its own, so the exception leaves it.  A failure of the
\* URL fetch is caught inside _clean_item_data and changes neither the loop
\* nor the stored status.
RECURSIVE fetch_loop_raising(_, _, _, _, _, _)
fetch_loop_raising(st, c, items, B, new_articles, fail) ==
    IF items = <<>> THEN [store |-> st, count |-> new_articles, raised |-> FALSE]
    ELSE IF fail = 1 THEN [store |-> st, count |-> new_articles, raised |-> TRUE]
    ELSE LET a == Head(items)
             next == IF fail > 1 THEN fail - 1 ELSE 0
         IN  IF item_exists(st, a)
             THEN fetch_loop_raising(st, c, Tail(items), B, new_articles, next)
             ELSE fetch_loop_raising(
                    store_feed_items(st, a,
                        [cat |-> c, status |-> STATUS_PENDING, bad |-> a \in B]).store,
                    c, Tail(items), B, new_articles + 1, next)

\* fetch_category_articles with its outer try: `except Exception` logs the
\* error and returns 0.
fetch_category_articles_raising(st, c, S, B, fail) ==
    LET r == fetch_loop_raising(st, c, SeqOfSet(S), B, 0, fail)
    IN  [store |-> r.store, count |-> IF r.raised THEN 0 ELSE r.count,
         raised |-> r.raised]

FetchCategoryRaising(c, S, B, fail) ==
    /\ pc = "idle"
    /\ LET r == fetch_category_articles_raising(store, c, S, B, fail)
       IN  /\ store' = r.store
           /\ ret' = Ret("fetch", IF r.raised THEN "raised" ELSE "ok", r.count, S)
    /\ UNCHANGED <<feedFile, pc, missing, rrVars, run, feedBroken, reply>>

NextFetch ==
    \/ \E c \in Categories, S \in SUBSET FetchIds, fail \in 0 .. MaxFetch :
           \E B \in SUBSET (S \cap BadIds) : FetchCategoryRaising(c, S, B, fail)
    \/ RoundRobinStart(Categories)
    \/ CategoryBatch
    \/ ProcessItem(Outcomes, {-1})
    \/ RoundEnd

SpecFetch == Init /\ [][NextFetch]_vars

\* ================================================================== claims

\* C1: after a successful analysis of a pending article with score s in a
\* category with quality threshold t, the stored processing_status is
\* filtered_out if and only if filtered_reason is set or s < t, and processed
\* otherwise.  Stated over every analyzed article that the publisher has not
\* marked yet.
C1_ThresholdRouting ==
    \A a \in Articles :
        (store[a].llm /\ store[a].status \in {STATUS_PROCESSED, STATUS_FILTERED})
        => (store[a].status = STATUS_FILTERED
              <=> (store[a].reason
                     \/ store[a].score < get_quality_threshold(store[a].cat)))

\* C2: in every reachable state, the state an aborted publisher run leaves
\* behind included, every article with published_to_feed = true has its id
\* as the guid of an item of the persisted feed document.
C2_PublishedFlagInFeed ==
    \A a \in Articles : store[a].ptf => a \in Range(feedFile)

\* C3: every article of the reconciler's repair set (processed or published,
\* score at or above the default threshold, in the window, guid absent from
\* the feed document) is in the feed document with published_to_feed = true
\* when the publisher run the reconciler invoked has ended by writing the
\* feed document.
C3_RepairSetRepublished ==
    (ret.op = "reconcile" /\ ret.res = "saved")
    => \A x \in ret.ids : x \in Range(feedFile) /\ store[x].ptf

\* C4: reconciliation completeness.  When the reconciler's publish step ends
\* (by returning or by raising, an outside interruption of the process set
\* aside), every article X of the repair set whose status was processed and
\* whose publish date can be rendered is an item of the feed document and has
\* published_to_feed = true.
C4_ReconciliationCompleteness ==
    [][(pc = "recon_publish" /\ ret'.op = "reconcile" /\ ret'.res # "interrupted")
       => \A x \in missing :
              (store[x].status = STATUS_PROCESSED /\ ~format_datetime_raises(store[x]))
              => (x \in Range(feedFile') /\ store'[x].ptf)]_vars

\* C5: after any sequence of publisher and reconciler runs the feed document
\* holds at most one item per guid.
C5_OneItemPerGuid == NoDup(feedFile)

\* A publisher run has just written the feed document and left an eligible
\* article unmarked because its guid was already an item of the document.
C5_Witness ==
    /\ ret.op = "publish" /\ ret.res = "saved"
    /\ \E a \in Range(feedFile) : filtered_query(store[a], publish_min_score, "any")

\* How often guid a is an item of the feed document.
Occurrences(feed, a) == Cardinality({i \in 1..Len(feed) : feed[i] = a})

\* C6: publish dedup.  A publisher run that writes the feed document leaves
\* every article it was given as exactly one item of the document, and a run
\* right after such a run, over the same store, adds zero items and leaves
\* the document as it was.
C6_PublishDedup ==
    [][(ret'.op = "publish" /\ ret'.res = "saved")
       => /\ \A a \in Range(get_filtered_items(store, publish_min_score, "any")) :
                 Occurrences(feedFile', a) = 1
          /\ ret'.rerun => (ret'.n = 0 /\ feedFile' = feedFile)]_vars

\* The second of two publisher runs in succession has ended, with zero
\* additions, over a feed document that holds a published article.
C6_Witness ==
    /\ ret.op = "publish" /\ ret.rerun /\ ret.res = "saved" /\ ret.n = 0
    /\ \E a \in Range(feedFile) : store[a].status = STATUS_PUBLISHED

\* C7: state-machine monotonicity.  Under category fetch, analyze batch,
\* publish and reconcile, an article whose processing_status is processed,
\* filtered_out or (after that) published is never pending again: it stays
\* among these three.
C7_StatusMonotonic ==
    [][\A a \in Articles :
           store[a].status \in {STATUS_PROCESSED, STATUS_FILTERED, STATUS_PUBLISHED}
           => store'[a].status \in {STATUS_PROCESSED, STATUS_FILTERED, STATUS_PUBLISHED}]_vars

\* A category fetch has just run over a raw article whose record was already
\* analyzed, and the record kept its status.
C7_Witness ==
    /\ ret.op = "fetch"
    /\ \E a \in ret.ids : store[a].status \in {STATUS_PROCESSED, STATUS_FILTERED}

\* C8: idempotent ingestion.  A category fetch stores every raw article it
\* did not know as pending and reports their number, and leaves every record
\* the store had as it was; so a fetch over raw articles an earlier fetch
\* stored reports zero new articles and leaves one record per id, unchanged.
C8_IdempotentFetch ==
    [][ret'.op = "fetch"
       => /\ ret'.n = Cardinality({a \in ret'.ids : ~id_matches(store, a)})
          /\ \A a \in ret'.ids :
                 ~id_matches(store, a) => store'[a].status = STATUS_PENDING
          /\ \A a \in Articles : id_matches(store, a) => store'[a] = store[a]
          /\ (\A a \in ret'.ids : id_matches(store, a))
             => (ret'.n = 0 /\ store' = store)]_vars

\* A fetch over raw articles that an earlier fetch stored has ended: zero
\* new articles, and the records of its articles are there, pending.
C8_Witness ==
    /\ ret.op = "fetch" /\ ret.n = 0 /\ ret.ids # {}
    /\ \A a \in ret.ids : store[a].status = STATUS_PENDING

\* C9: re-ingesting a known article id through store_feed_items is a no-op:
\* the record is unchanged whatever state it was in, and the call counts zero
\* items stored.
C9_ReingestNoOp ==
    [][(ret'.op = "store" /\ ret'.rerun) => (store' = store /\ ret'.n = 0)]_vars

\* The pending articles of a category.
PendingIn(c) ==
    Cardinality({a \in Articles : store[a].status = STATUS_PENDING /\ store[a].cat = c})

\* The for loop over the categories of the current round is over.
RoundOver == pc = "rr" /\ rrIdx > Len(categories)

\* C10: round-robin fairness.  A batch holds at most batch_size articles; no
\* rotation category is asked for a second batch before every other one had
\* its batch of the round, and when a round is over each was asked exactly
\* as often as the others.  With MaxArticles - 1 pending in A and 1 in B,
\* when round 1 is over A has at least MaxArticles - 1 - batch_size pending,
\* and if every article of the round was advanced, B is drained and A has
\* exactly MaxArticles - 1 - batch_size.
C10_RoundRobinFairness ==
    /\ Len(batch) <= batch_size
    /\ \A c, d \in rotation : grants[c] <= grants[d] + 1
    /\ RoundOver => \A c, d \in rotation : grants[c] = grants[d]
    /\ (RoundOver /\ rotation = Categories /\ \A c \in Categories : grants[c] = 1)
       => /\ PendingIn("A") >= MaxArticles - 1 - batch_size
          /\ roundCount = batch_size + 1
             => (PendingIn("B") = 0 /\ PendingIn("A") = MaxArticles - 1 - batch_size)

\* Round 1 is over, each of A and B had one batch, B is drained and A is
\* batch_size articles shorter.
C10_Witness ==
    /\ RoundOver /\ rotation = Categories
    /\ \A c \in Categories : grants[c] = 1
    /\ roundCount = batch_size + 1
    /\ PendingIn("B") = 0
    /\ PendingIn("A") = MaxArticles - 1 - batch_size

SpecRRFair == InitRR /\ [][NextRR]_vars /\ WF_vars(NextRR)

\* C12: for any backlog and any pattern of analysis and publish failures,
\* the round-robin scheduler terminates: every run reaches the stop of the
\* loop.
C12_Terminates == <>(ret.op = "round_robin" /\ ret.res = "done")

\* The scheduler has stopped after a run in which an article kept failing or
\* was skipped as already analyzed: it is still pending.
C12_Witness ==
    /\ ret.op = "round_robin" /\ ret.res = "done"
    /\ \E a \in ret.ids : already_analyzed(store, a)
    /\ \E a \in ret.ids : ~already_analyzed(store, a)

\* The step reported by r stored an analysis that put its article into
\* processed (st is the store after the step; the publisher may have marked
\* the article since).
ToProcessed(r, st) ==
    /\ r.op = "analyze" /\ r.res \notin {"skipped", "failed"}
    /\ \A a \in r.ids : ~st[a].reason

\* C13: trigger-on-count, as far as every triggered publisher run ends well.
\* In a category with high_quality_target 1 every article that transitions
\* to processed invokes the publisher; in a category with target 2, of two
\* articles in a row that transition to processed in a batch exactly one
\* invokes the publisher (the second since the last trigger or the start).
C13_TriggerOnCount ==
    [][(pc = "rr_item" /\ ToProcessed(ret', store') /\ ret'.res = "advanced")
       => /\ get_high_quality_target(categories[rrIdx]) = 1 => ret'.trigger
          /\ (/\ get_high_quality_target(categories[rrIdx]) = 2
              /\ ToProcessed(ret, store) /\ ret.res = "advanced")
             => (ret.trigger # ret'.trigger)]_vars

\* C14: when the analysis of a pending article raises, the attempt leaves the
\* store as it was: the article is pending as before and has no llm_analysis.
C14_FailedAnalysisKeepsPending ==
    [][(pc = "rr_item" /\ ret'.op = "analyze" /\ ret'.res = "failed")
       => /\ store' = store
          /\ \A a \in ret'.ids :
                 store'[a].status = STATUS_PENDING /\ ~store'[a].llm]_vars

\* An analysis has just failed on an article that an earlier fetch stored.
C14_Witness ==
    /\ ret.op = "analyze" /\ ret.res = "failed"
    /\ \E a \in ret.ids : store[a].status = STATUS_PENDING /\ ~store[a].llm

\* C15: a failed analysis does not abort the batch.  The failure is that of
\* the article at the head of the batch; the for loop goes on with the
\* article after it, and when the batch is over the scheduler goes on with
\* the next category of the list, which is asked for its batch like any
\* other.
C15_FailureDoesNotAbortBatch ==
    [][/\ (pc = "rr_item" /\ ret'.op = "analyze" /\ ret'.res = "failed")
          => /\ ret'.ids = {Head(batch)}
             /\ batch' = Tail(batch)
             /\ batch' # <<>> => (pc' = "rr_item" /\ rrIdx' = rrIdx)
             /\ batch' = <<>> => (pc' = "rr" /\ rrIdx' = rrIdx + 1)
       /\ (pc = "rr_item" /\ ret.op = "analyze" /\ ret.res = "failed")
          => (ret'.op = "analyze" /\ ret'.ids = {Head(batch)})
       /\ (pc = "rr" /\ ret.op = "analyze" /\ ret.res = "failed" /\ ~RoundOver)
          => (ret'.op = "batch"
              /\ (categories[rrIdx] \in rotation => ret'.res = categories[rrIdx]))]_vars

\* An article has just been advanced in a batch in which an older article of
\* the same category failed before it: the older one is still pending.
C15_Witness ==
    /\ ret.op = "analyze" /\ ret.res = "advanced" /\ pc = "rr_item"
    /\ \E a \in ret.ids : \E b \in Articles :
           /\ b < a /\ ~store[b].bad
           /\ store[b].cat = store[a].cat
           /\ store[b].status = STATUS_PENDING /\ ~store[b].llm

\* The articles that an analysis left pending: stored, pending, not analyzed.
LeftPending(st) ==
    {a \in Articles : st[a].status = STATUS_PENDING /\ ~st[a].llm
                      /\ st[a].cat \in Categories}

\* C16: an article left pending by a failed analysis is analysed again the
\* next time the all-categories pipeline runs, whatever the number of new
\* articles that run fetches: the run goes into the scheduler, whose first
\* round asks the article's category for a batch.
C16_RetriedOnNextRun ==
    [][(pc = "idle" /\ ret'.op = "all_categories" /\ LeftPending(store) # {})
       => (pc' = "rr" /\ \A a \in LeftPending(store) : store[a].cat \in rotation')]_vars

\* C17: when rendering one eligible article fails (format_datetime raises on
\* its publish date), a publisher run that nothing interrupts from outside
\* leaves that article out of the feed document and without
\* published_to_feed, and every other article it selected is an item of the
\* feed document it persisted.
C17_RenderFailureContained ==
    [][(pc = "idle" /\ ret'.op = "publish" /\ ret'.res # "interrupted")
       => \A a \in Range(get_filtered_items(store, publish_min_score, "any")) :
              /\ format_datetime_raises(store[a])
                    => (a \notin Range(feedFile') /\ ~store'[a].ptf)
              /\ ~format_datetime_raises(store[a]) => a \in Range(feedFile')]_vars

\* C18: when the processing of a requested category ended in a fatal error,
\* the run that has ended counted that category as failed and exited with a
\* failure status.
C18_FatalErrorReported ==
    (run.status \in {"exit0", "exit1"} /\ run.fatal # {})
    => (run.status = "exit1" /\ run.failure_count >= Cardinality(run.fatal))

\* C19: every article a publisher run adds to the feed document had, when
\* the run selected it, processing_status processed or filtered_out (the
\* article a batch step has just analyzed comes from pending in that same
\* step), llm_analysis.relevance_score at or above min_score, and
\* published_to_feed not true; and a publisher run that writes the document
\* leaves no processed or filtered_out article that meets the score outside it.
C19_PublisherSelection ==
    [][/\ \A x \in Range(feedFile') \ Range(feedFile) :
              /\ store'[x].llm /\ store'[x].score >= publish_min_score
              /\ ~store[x].ptf
              /\ \/ store[x].status \in {STATUS_PROCESSED, STATUS_FILTERED}
                 \/ /\ pc = "rr_item" /\ x = Head(batch)
                    /\ store[x].status = STATUS_PENDING
       /\ (pc = "idle" /\ ret'.op = "publish" /\ ret'.res = "saved")
          => \A x \in Articles :
                 (/\ store[x].status \in {STATUS_PROCESSED, STATUS_FILTERED}
                  /\ store[x].llm /\ store[x].score >= publish_min_score
                  /\ ~store[x].ptf)
                 => x \in Range(feedFile')]_vars

\* A publisher run has just added two articles, one that was filtered_out
\* (it has a filter reason) and one that was processed.
C19_Witness ==
    /\ ret.op = "publish" /\ ret.res = "saved" /\ ret.n >= 2
    /\ \E x, y \in Range(feedFile) :
           /\ store[x].ptf /\ store[x].reason /\ store[x].score >= publish_min_score
           /\ store[y].ptf /\ ~store[y].reason

\* The step is a publisher run: update_feed.main() called on its own, by the
\* reconciler, or by a batch step that reached the high quality target.
PublisherRan ==
    \/ pc = "idle" /\ ret'.op = "publish"
    \/ pc = "recon_publish" /\ ret'.op = "reconcile"
    \/ pc = "rr_item" /\ ret'.trigger

\* C20: a publisher run adds nothing for an article whose guid is already an
\* item of the feed document and does not write its record: the guid occurs
\* as often as before, published_to_feed is as before, an article that was
\* eligible keeps its whole record, and the article a batch step has just
\* analyzed is not turned to published.
C20_DuplicateLeftUntouched ==
    [][PublisherRan
       => \A x \in Range(feedFile) :
              /\ Occurrences(feedFile', x) = Occurrences(feedFile, x)
              /\ store'[x].ptf = store[x].ptf
              /\ filtered_query(store[x], publish_min_score, "any")
                    => store'[x] = store[x]
              /\ (pc = "rr_item" /\ x = Head(batch))
                    => store'[x].status # STATUS_PUBLISHED]_vars

\* A publisher run has just added an article and passed over another one,
\* still eligible, whose guid was an item of the document before the run.
C20_Witness ==
    /\ ret.op = "publish" /\ ret.res = "saved" /\ ret.n >= 1
    /\ \E x, y \in Range(feedFile) :
           /\ x # y
           /\ filtered_query(store[x], publish_min_score, "any")
           /\ store[y].ptf /\ store[y].status = STATUS_PUBLISHED

\* The reconciler's candidates over a window that holds every article.
Candidates ==
    {a \in Articles : /\ store[a].status \in {STATUS_PROCESSED, STATUS_PUBLISHED}
                      /\ store[a].llm
                      /\ store[a].score >= default_quality_threshold}

\* C21: a reconciler run whose repair set is empty (no candidate, or every
\* candidate's guid already an item of the feed document) writes nothing to
\* the store or the document and does not go on to the publisher; it goes on
\* to the publisher only with a repair set that is not empty and holds
\* candidates absent from the document.
C21_EmptyRepairSetIsNoOp ==
    [][(pc = "idle" /\ ret'.op \in {"reconcile", "reconcile_clear"})
       => /\ Candidates \subseteq Range(feedFile)
                => (store' = store /\ feedFile' = feedFile /\ pc' = "idle")
          /\ pc' = "idle" => (store' = store /\ feedFile' = feedFile /\ missing' = {})
          /\ pc' = "recon_publish"
                => (missing' # {} /\ missing' \subseteq Candidates \ Range(feedFile))]_vars

\* A reconciler run has just found candidates, all of them items of the
\* feed document, and ended.
C21_Witness ==
    /\ ret.op = "reconcile" /\ ret.res = "in_sync" /\ pc = "idle"
    /\ Candidates # {} /\ Candidates \subseteq Range(feedFile)

\* C22: when feed.xml is missing or cannot be parsed, a reconciler run does
\* not fail: it either finds no candidate in its window and ends, or goes on
\* to the publisher with a repair set that holds every candidate that is in
\* every window, all of them with published_to_feed cleared.
C22_DamagedFeedIsEmpty ==
    [][(pc = "idle" /\ ret'.op \in {"reconcile", "reconcile_clear"}
        /\ (feedBroken \/ feedFile = <<>>))
       => /\ \A x \in Candidates :
                 (\A W \in Windows : x \in W)
                 => (x \in missing' /\ ~store'[x].ptf /\ pc' = "recon_publish")
          /\ missing' \subseteq Candidates
          /\ \A x \in missing' : ~store'[x].ptf
          /\ pc' = "idle" => (ret'.res = "nothing" /\ store' = store)]_vars

\* The reconciler has just cleared published_to_feed on a published article,
\* feed.xml being unparseable, and is about to call the publisher.
C22_Witness ==
    /\ feedBroken /\ pc = "recon_publish" /\ ret.op = "reconcile_clear"
    /\ \E x \in missing : store[x].status = STATUS_PUBLISHED /\ ~store[x].ptf

C24_PublishedIsTerminal ==
    [][\A a \in Articles :
           store[a].status = STATUS_PUBLISHED
           => /\ store'[a].status = STATUS_PUBLISHED
              /\ store'[a] # store[a]
                    => /\ pc = "idle" /\ ret'.op = "reconcile_clear"
                       /\ store'[a] = [store[a] EXCEPT !.ptf = FALSE]]_vars

\* The reconciler's publisher run has just ended, having been given a
\* published article whose flag the reconciler had cleared; the article is
\* still published.
C24_Witness ==
    /\ ret.op = "reconcile" /\ pc = "idle"
    /\ \E x \in ret.ids : store[x].status = STATUS_PUBLISHED /\ ~store[x].ptf

C26_FailedCategoryLeftOut ==
    pc \in {"rr", "rr_item"}
    => /\ \E F \in Failing : rotation = Categories \ F
       /\ \A c \in Categories \ rotation : grants[c] = 0
       /\ pc = "rr_item" => categories[rrIdx] \in rotation
       /\ RoundOver => \A c, d \in rotation : grants[c] >= 1 /\ grants[c] = grants[d]

\* The second round is over in a run in which the first category could not
\* be initialized: it had no batch, the other one had two.
C26_Witness ==
    /\ RoundOver /\ categories[1] \notin rotation
    /\ grants[categories[1]] = 0 /\ grants[categories[2]] = 2
    /\ PendingIn(categories[1]) > 0

\* C27: the final publish step of a single-category run calls the publisher
\* if and only if the store holds an analyzed, not yet published article of
\* that category with a score at or above the category's quality threshold;
\* when there is none the step changes neither the store nor the document.
C27_FinalPublishStep ==
    [][(pc = "main_publish" /\ ret'.op = "main_publish")
       => LET c == Head(run.queue)
              unpublished ==
                  {a \in Articles :
                      /\ store[a].cat = c
                      /\ store[a].status \in {STATUS_PROCESSED, STATUS_FILTERED}
                      /\ store[a].llm
                      /\ store[a].score >= get_quality_threshold(c)
                      /\ ~store[a].ptf}
          IN  /\ ret'.trigger <=> unpublished # {}
              /\ ~ret'.trigger => (store' = store /\ feedFile' = feedFile)]_vars

\* The final publish step has just called the publisher and an article was
\* added to the document.
C27_Witness ==
    ret.op = "main_publish" /\ ret.trigger /\ ret.res = "saved" /\ ret.n >= 1

\* Opening minus closing braces among the characters i..j of s.
Depth(s, i, j) ==
    Cardinality({k \in i .. j : s[k] = "{"}) - Cardinality({k \in i .. j : s[k] = "}"})

\* The first "{" of s is at i.
FirstBrace(s, i) == i \in 1 .. Len(s) /\ s[i] = "{" /\ \A k \in 1 .. i - 1 : s[k] # "{"

\* C28: the extraction returns exactly the substring from the first "{"
\* through the first "}" at which the depth, counted over every brace, is
\* back to zero; what is before and after is dropped.  "a{{}}a" gives
\* "{{}}", "{}{}" gives "{}", and a brace inside a string literal counts:
\* "{q}q}" gives "{q}".
C28_ExtractsFirstBalanced ==
    (reply.stage = "extracted" /\ reply.error = "none")
    => LET c == reply.content
       IN  /\ \E i, j \in 1 .. Len(c) :
                  /\ FirstBrace(c, i)
                  /\ i < j /\ c[j] = "}" /\ Depth(c, i, j) = 0
                  /\ \A m \in i .. j - 1 : Depth(c, i, m) > 0
                  /\ reply.result = SubSeq(c, i, j)
           /\ c = <<"a", "{", "{", "}", "}", "a">> => reply.result = <<"{", "{", "}", "}">>
           /\ c = <<"{", "}", "{", "}">> => reply.result = <<"{", "}">>
           /\ c = <<"{", "q", "}", "q", "}">> => reply.result = <<"{", "q", "}">>

\* The extraction has cut a reply at a brace inside a string literal.
C28_Witness ==
    /\ reply.stage = "extracted" /\ reply.error = "none"
    /\ reply.content = <<"{", "q", "}", "q", "}">>
    /\ reply.result = <<"{", "q", "}">>

\* C29: the extraction fails with "no JSON object found" exactly when the
\* reply holds no "{", with "unmatched braces" exactly when it holds a "{"
\* and the depth counted from the first "{" never comes back to zero, and
\* returns a result in every other case.
C29_ExtractionErrors ==
    reply.stage = "extracted"
    => LET c == reply.content
           none == \A k \in 1 .. Len(c) : c[k] # "{"
           open == \E i \in 1 .. Len(c) :
                       FirstBrace(c, i) /\ \A j \in i .. Len(c) : Depth(c, i, j) # 0
       IN  /\ reply.error = "No JSON object found in content" <=> none
           /\ reply.error = "Unmatched braces in JSON content" <=> open
           /\ (~none /\ ~open) <=> (reply.error = "none" /\ reply.result # <<>>)

\* The extraction has failed on a reply whose braces are as many closing as
\* opening, the closing one first.
C29_Witness ==
    /\ reply.stage = "extracted"
    /\ reply.error = "Unmatched braces in JSON content"
    /\ reply.content = <<"}", "a", "{">>

\* C30: analyze_item returns a result only for a reply whose extracted text
\* parses as JSON and whose object has relevance_score, summary and
\* key_topics; every other reply ends in an error, and the result returned
\* holds the keys of the reply and the metadata, no field added for a
\* missing one.
C30_InvalidReplyRaises ==
    /\ reply.stage = "returned"
       => /\ reply.error = "none"
          /\ ~json_loads_raises(reply.result)
          /\ REQUIRED_FIELDS \subseteq reply.keys
          /\ reply.returned = reply.keys \cup {"_analysis_metadata"}
    /\ reply.stage = "raised"
       => /\ reply.error # "none"
          /\ reply.returned = {}
          /\ \/ reply.result = <<>>
             \/ json_loads_raises(reply.result)
             \/ ~(REQUIRED_FIELDS \subseteq reply.keys)
    /\ reply.stage \in {"returned", "raised"}
       => /\ json_loads_raises(reply.result) => reply.stage = "raised"
          /\ (\E f \in REQUIRED_FIELDS : f \notin reply.keys) => reply.stage = "raised"

\* analyze_item has raised for a reply that parsed and lacked summary.
C30_Witness ==
    /\ reply.stage = "raised"
    /\ ~json_loads_raises(reply.result)
    /\ reply.keys = REQUIRED_FIELDS \ {"summary"}

\* C31: a failure while ingesting one source article does not abort the
\* category fetch: of the articles the source returned at most the failing
\* one is left out of the store, and the count returned is the number of
\* articles the fetch newly stored.
C31_FetchFailureContained ==
    [][(pc = "idle" /\ ret'.op = "fetch")
       => /\ Cardinality({a \in ret'.ids : store'[a].status = "none"}) <= 1
          /\ ret'.n = Cardinality({a \in Articles : /\ store[a].status = "none"
                                                    /\ store'[a].status # "none"})]_vars

\* The state process_pending_articles_round_robin is in when its loop begins.
SchedulerStarted == ret.op = "round_robin" /\ ret.res = "started"

\* C32: every article that is pending in a rotation category when the
\* round-robin scheduler starts is, at some point of the run, in a batch the
\* scheduler hands to the analysis.
C32_EveryPendingAttempted ==
    \A a \in Articles :
        (SchedulerStarted /\ store[a].status = STATUS_PENDING
                          /\ store[a].cat \in rotation)
            ~> (pc = "rr_item" /\ a \in Range(batch))

\* articles_processed of the running batch after a step of its for loop: the
\* value the batch returned when the step was its last.
ArticlesProcessedAfter ==
    IF pc' = "rr" THEN roundCount' - roundCount ELSE batchCount'

\* C33: the count a category batch returns is the number of its articles whose
\* stored processing_status left pending during the batch: each iteration adds
\* one to articles_processed exactly when it advanced its article, also when
\* the publish trigger fired for it.
C33_CountIsAdvanced ==
    [][(pc = "rr_item" /\ ret'.op = "analyze")
       => ArticlesProcessedAfter - batchCount =
              IF /\ store[Head(batch)].status = STATUS_PENDING
                 /\ store'[Head(batch)].status # STATUS_PENDING
              THEN 1 ELSE 0]_vars

\* C34: between the handling of any two articles of a round-robin run, each
\* rotation category's high_quality_count is at least 0 and below its
\* high_quality_target.
C34_CounterBelowTarget ==
    pc \in {"rr", "rr_item"}
        => \A c \in rotation : 0 <= hq[c] /\ hq[c] < get_high_quality_target(c)

\* C35: the article whose high-quality count fires the publish trigger is in
\* the feed document once the publisher run the trigger invokes has saved it.
C35_CountedIsPublished ==
    [][(pc = "rr_item" /\ ret'.op = "analyze" /\ ret'.trigger
                       /\ ret'.res = "advanced")
       => Head(batch) \in Range(feedFile')]_vars

\* The sequence s holds articles in strictly ascending publish time.
OldestFirst(st, s) ==
    \A i, j \in 1 .. Len(s) : i < j => SortKey(st, s[i]) < SortKey(st, s[j])

\* C36: within a round the categories are taken in the order of the category
\* list (the index moves one forward at a time and goes back to the first
\* only when the round is over); the batch of a category holds its pending
\* articles oldest first, no pending article left out is older than one taken,
\* and the for loop handles the batch from its head.
C36_ListOrderAndOldestFirst ==
    [][/\ (pc = "rr" /\ ret'.op = "batch")
          => LET c == categories[rrIdx]
             IN  /\ c \in rotation => ret'.res = c
                 /\ rrIdx' = rrIdx + 1 \/ (rrIdx' = rrIdx /\ pc' = "rr_item")
                 /\ pc' = "rr_item"
                    => /\ OldestFirst(store, batch')
                       /\ \A a \in Range(batch') :
                              /\ store[a].cat = c
                              /\ store[a].status = STATUS_PENDING
                       /\ \A b \in Articles \ Range(batch') :
                              (store[b].cat = c /\ store[b].status = STATUS_PENDING)
                              => \A a \in Range(batch') :
                                     SortKey(store, a) < SortKey(store, b)
       /\ (pc = "rr_item" /\ ret'.op = "analyze")
          => /\ ret'.ids = {Head(batch)}
             /\ batch' = Tail(batch)
             /\ rrIdx' = IF batch' = <<>> THEN rrIdx + 1 ELSE rrIdx
       /\ rrIdx' # rrIdx
          => rrIdx' = rrIdx + 1 \/ (rrIdx > Len(categories) /\ rrIdx' = 1)]_vars

\* The oldest article of the first batch of A has been handled, the next
\* oldest is at the head of the rest, and the youngest pending article of A
\* did not get into the batch.
C36_Witness ==
    /\ pc = "rr_item" /\ ret.op = "analyze" /\ ret.ids = {1}
    /\ categories[rrIdx] = "A" /\ grants["A"] = 1
    /\ Len(batch) = batch_size - 1 /\ Head(batch) = 2
    /\ store[MaxArticles - 1].status = STATUS_PENDING
    /\ store[MaxArticles - 1].cat = "A"
    /\ MaxArticles - 1 \notin Range(batch)

\* C37: an article whose stored record already carries llm_analysis is
\* skipped in the analyze phase: no analysis outcome is produced for it, the
\* store and the feed document stay as they are, and neither
\* articles_processed nor high_quality_count moves.
C37_AnalyzedIsSkipped ==
    [][(pc = "rr_item" /\ ret'.op = "analyze" /\ store[Head(batch)].llm)
       => /\ ret'.res = "skipped"
          /\ ret'.ids = {Head(batch)}
          /\ store' = store
          /\ feedFile' = feedFile
          /\ hq' = hq
          /\ ArticlesProcessedAfter = batchCount]_vars

\* The batch of B has just passed over its pending article that carries an
\* analysis: the article is as it was, and the batch returned 0.
C37_Witness ==
    /\ ret.op = "analyze" /\ ret.res = "skipped" /\ pc = "rr"
    /\ \A a \in ret.ids : /\ store[a].llm
                          /\ store[a].status = STATUS_PENDING
                          /\ store[a].cat = "B"
    /\ ret.ids # {}
    /\ roundCount = 0 /\ hq["B"] = 0

\* C38: the reconciler's own store write removes published_to_feed from the
\* articles of the repair set and changes nothing else: their other fields,
\* and every article outside the repair set, are as before.
C38_RepairWriteOnlyClearsFlag ==
    [][(pc = "idle" /\ ret'.op = "reconcile_clear")
       => /\ missing' = ret'.ids
          /\ \A a \in Articles :
                 store'[a] = IF a \in ret'.ids
                             THEN [store[a] EXCEPT !.ptf = FALSE]
                             ELSE store[a]]_vars

\* The repair write has just been done: an article of the repair set is
\* published and without the flag, and a published article outside the
\* repair set still has its flag.
C38_Witness ==
    /\ pc = "recon_publish" /\ ret.op = "reconcile_clear"
    /\ \E a \in missing : store[a].status = STATUS_PUBLISHED /\ ~store[a].ptf
    /\ \E b \in Articles \ missing : store[b].status = STATUS_PUBLISHED /\ store[b].ptf

\* The items of the document new whose guids the document old holds, in
\* the order of new.
KeptItems(old, new) == SelectSeq(new, LAMBDA g : g \in Range(old))

\* C39: the persisted feed document is append-only with respect to items:
\* no step of the pipeline (publisher runs, reconciler runs, the publisher
\* runs of the analyze phase) takes a guid out of it, and the items it held
\* keep their guid and their relative order.
C39_FeedAppendOnly ==
    [][/\ Range(feedFile) \subseteq Range(feedFile')
       /\ KeptItems(feedFile, feedFile') = feedFile]_vars

\* A publisher run has just saved a document to which it added one item, and
\* the document holds an item that was there before the run.
C39_Witness ==
    /\ ret.op = "publish" /\ ret.res = "saved" /\ ret.n = 1
    /\ Len(feedFile) = 2
    /\ \A a \in Range(feedFile) : store[a].status = STATUS_PUBLISHED

\* C40: an article's category is set at its first ingestion and no later
\* step changes it: a fetch stores a new article with a category of the
\* list, and fetching a known id under another category, analysis,
\* publication and reconciliation leave the stored category as it is.
C40_CategorySetOnce ==
    [][\A a \in Articles :
           /\ (store[a].status = "none" /\ store'[a].status # "none")
              => store'[a].cat \in Categories
           /\ store[a].status # "none" => store'[a].cat = store[a].cat]_vars

\* A fetch whose source returned both articles has just stored one of them;
\* the other was known, and the two carry different categories, so the fetch
\* ran under a category the known article does not have.
C40_Witness ==
    /\ ret.op = "fetch" /\ ret.n = 1 /\ ret.ids = FetchIds
    /\ \E a, b \in FetchIds :
           /\ store[a].cat \in Categories /\ store[b].cat \in Categories
           /\ store[a].cat # store[b].cat

====
